---- MODULE Spec2Model ----
(***************************************************************************)
(* The NodeMetadata score plugin of scheduler-plugins                      *)
(* (pkg/nodemetadata/node_metadata.go) and the validation of its           *)
(* arguments (ValidateNodeMetadataArgs).                                   *)
(*                                                                         *)
(* One scheduling cycle: New builds the plugin from its arguments, the     *)
(* framework calls Score once per node (in any order, each call reading    *)
(* the wall clock when it runs), then NormalizeScore once over the list.   *)
(* A plugin serves several cycles, one per pod, over the same nodes; the   *)
(* Score calls of a cycle may run concurrently, each in three steps.       *)
(*                                                                         *)
(* Go's int64 is modelled as a two's complement word of IntBits bits: all  *)
(* of -, * and / wrap exactly as in Go, at a width TLC can compute with.   *)
(* time.Duration is the same word counting ticks, TicksPerSecond to the    *)
(* second (Go: nanoseconds, 10^9 to the second), and saturates as          *)
(* time.Time.Sub does.  The strings the code parses are parsed here too,    *)
(* character by character.                                                 *)
(***************************************************************************)
EXTENDS Integers, Sequences, FiniteSets, TLC

VARIABLES
    obj,          \* the arguments object handed to New
    plugin,       \* the *NodeMetadata New returned: [args |-> ...], or Nil
    newErr,       \* whether New returned an error
    nodes,        \* the cycle's nodes, by index: [Name, Labels, Annotations] or Nil
    pending,      \* indices whose Score call has not run yet
    scores,       \* framework.NodeScoreList: sequence of [Name, Score]
    scoreStatus,  \* the status each Score call returned ("Pending" before it ran)
    normStatus,   \* the status NormalizeScore returned ("Pending" before it ran)
    raw,          \* the list as it was handed to NormalizeScore
    readAt,       \* the clock reading of each Score call (0 before it ran)
    now,          \* the wall clock, in ticks since Epoch
    pc,           \* "new", "score", "normalize", "done", "rejected", "aborted", "panic"
    cycle,        \* the number of the scheduling cycle, from 1
    pod,          \* the pod the cycle schedules
    results,      \* [pod, scores] of every cycle NormalizeScore completed
    call          \* the Score call of each node while it runs: [pc, score, err]

vars == <<obj, plugin, newErr, nodes, pending, scores, scoreStatus, normStatus,
          raw, readAt, now, pc, cycle, pod, results, call>>

\* the nil pointer
Nil == [nil |-> TRUE]

----------------------------------------------------------------------------
(* Bounds of the model *)

\* width of the word that models int64
IntBits == 24
\* ticks of time.Duration per second
TicksPerSecond == 256
\* longest list handed to NormalizeScore on its own
MaxLen == 3
\* number of nodes of a scoring cycle
MaxNodes == 2
\* number of scheduling cycles one plugin runs
MaxCycles == 3
\* the clock stops advancing after this many ticks past its first reading
MaxClock == 768

(* Program constants *)

\* framework.MinNodeScore and framework.MaxNodeScore
MinNodeScore == 0
MaxNodeScore == 100

----------------------------------------------------------------------------
(* int64 arithmetic *)

Modulus == 2 ^ IntBits
MaxInt64 == (2 ^ (IntBits - 1)) - 1
MinInt64 == -(2 ^ (IntBits - 1))
Int64 == MinInt64 .. MaxInt64

Abs(x) == IF x < 0 THEN -x ELSE x

\* the value of x as an int64: two's complement wraparound
Wrap(x) == ((x - MinInt64) % Modulus) + MinInt64

Add64(a, b) == Wrap(a + b)
Sub64(a, b) == Wrap(a - b)
Mul64(a, b) == Wrap(a * b)
Neg64(a) == Wrap(-a)

\* the quotient truncated toward zero (b # 0)
TruncDiv(a, b) ==
    IF (a >= 0) = (b > 0) THEN Abs(a) \div Abs(b) ELSE -(Abs(a) \div Abs(b))

\* Go's x / y on int64, y # 0: truncated, and MinInt64 / -1 = MinInt64
Div64(a, b) == Wrap(TruncDiv(a, b))

----------------------------------------------------------------------------
(* NormalizeScore *)

RECURSIVE MinScoreFrom(_, _, _)
\* lines 161-164: the running minimum over scores[i..]
MinScoreFrom(list, i, minScore) ==
    IF i > Len(list) THEN minScore
    ELSE MinScoreFrom(list, i + 1,
                      IF list[i].Score < minScore THEN list[i].Score ELSE minScore)

RECURSIVE MaxScoreFrom(_, _, _)
\* lines 161-168: the running maximum over scores[i..]
MaxScoreFrom(list, i, maxScore) ==
    IF i > Len(list) THEN maxScore
    ELSE MaxScoreFrom(list, i + 1,
                      IF list[i].Score > maxScore THEN list[i].Score ELSE maxScore)

\* Rescale without the scaling to the new range
RescaleUnscaled(score, minScore, oldRange, newRange) ==
    Add64(Sub64(score, minScore), MinNodeScore)

\* Rescale that counts down from MaxNodeScore
RescaleInverted(score, minScore, oldRange, newRange) ==
    Sub64(MaxNodeScore, Div64(Mul64(Sub64(score, minScore), newRange), oldRange))

\* Rescale with the quotient rounded up
RescaleRoundingUp(score, minScore, oldRange, newRange) ==
    Add64(Div64(Add64(Mul64(Sub64(score, minScore), newRange), Sub64(oldRange, 1)),
                oldRange),
          MinNodeScore)

\* line 186: ((score-minScore)*newRange)/oldRange + MinNodeScore, oldRange # 0
Rescale(score, minScore, oldRange, newRange) ==
    Add64(Div64(Mul64(Sub64(score, minScore), newRange), oldRange), MinNodeScore)

\* Collapse that leaves the scores as they are
CollapseKeepsScores(list) == list

\* lines 172-179: every entry set to MinNodeScore
Collapse(list) ==
    [i \in DOMAIN list |-> [list[i] EXCEPT !.Score = MinNodeScore]]

\* NormalizeScore without the branch for maxScore == minScore
NormalizeScoreUnguarded(list) ==
    IF Len(list) = 0 THEN [scores |-> list, status |-> "Success"]
    ELSE
        LET minScore == MinScoreFrom(list, 1, list[1].Score)
            maxScore == MaxScoreFrom(list, 1, list[1].Score)
            oldRange == Sub64(maxScore, minScore)
            newRange == Sub64(MaxNodeScore, MinNodeScore)
        IN  IF oldRange = 0
            THEN [scores |-> list, status |-> "Panic"]
            ELSE [scores |-> [i \in DOMAIN list |->
                                [list[i] EXCEPT !.Score =
                                    Rescale(list[i].Score, minScore, oldRange, newRange)]],
                  status |-> "Success"]

\* NormalizeScore that returns the entries in the opposite order
NormalizeScoreReversed(list) ==
    [scores |-> [i \in DOMAIN list |-> list[Len(list) + 1 - i]], status |-> "Success"]

\* NormalizeScore without the check of len(scores): scores[0] of an empty
\* list is an index out of range
NormalizeScoreUnchecked(list) ==
    IF Len(list) = 0 THEN [scores |-> list, status |-> "Panic"]
    ELSE [scores |-> Collapse(list), status |-> "Success"]

\* lines 149-191.  The result is the list after the call and the status
\* returned; "Panic" is the run-time panic of an integer division by zero.
NormalizeScore(list) ==
    IF Len(list) = 0 THEN [scores |-> list, status |-> "Success"]
    ELSE
        LET minScore == MinScoreFrom(list, 1, list[1].Score)
            maxScore == MaxScoreFrom(list, 1, list[1].Score)
            oldRange == Sub64(maxScore, minScore)
            newRange == Sub64(MaxNodeScore, MinNodeScore)
        IN  IF maxScore = minScore
            THEN [scores |-> Collapse(list), status |-> "Success"]
            ELSE IF oldRange = 0
            THEN [scores |-> list, status |-> "Panic"]
            ELSE [scores |-> [i \in DOMAIN list |->
                                [list[i] EXCEPT !.Score =
                                    Rescale(list[i].Score, minScore, oldRange, newRange)]],
                  status |-> "Success"]

----------------------------------------------------------------------------
(* Strings.  A Go string is a TLA+ string; the parsers below walk it one  *)
(* character at a time.                                                    *)

CharAt(s, i) == SubSeq(s, i, i)

IsDigit(c) == \E d \in 1..10 : CharAt("0123456789", d) = c

DigitValue(c) == (CHOOSE d \in 1..10 : CharAt("0123456789", d) = c) - 1

AllDigits(s) == \A i \in 1..Len(s) : IsDigit(CharAt(s, i))

RECURSIVE DecimalValue(_)
\* the number a string of decimal digits denotes ("" denotes 0)
DecimalValue(s) ==
    IF Len(s) = 0 THEN 0
    ELSE 10 * DecimalValue(SubSeq(s, 1, Len(s) - 1)) + DigitValue(CharAt(s, Len(s)))

\* the first index of s holding one of the characters cs, or 0
IndexOf(s, cs) ==
    IF \E i \in 1..Len(s) : CharAt(s, i) \in cs
    THEN CHOOSE i \in 1..Len(s) :
            /\ CharAt(s, i) \in cs
            /\ \A j \in 1..(i - 1) : CharAt(s, j) \notin cs
    ELSE 0

----------------------------------------------------------------------------
(* strconv.ParseFloat(value, 64) and the conversion int64(float64).       *)
(* A float64 is [kind |-> "finite", num, den] (the rational num/den,      *)
(* den > 0), or [kind |-> "inf", neg], or [kind |-> "nan"].  The grammar  *)
(* is Go's decimal one: sign, digits with at most one point, exponent;    *)
(* and the spellings of infinity and NaN.  Hexadecimal floats and the     *)
(* rounding of float64 (53 bits of mantissa) are not modelled.            *)

SyntaxError == [err |-> TRUE]

Finite(n, d) == [err |-> FALSE, kind |-> "finite", num |-> n, den |-> d]

\* digits with at most one point and at least one digit: [ok, num, den]
ParseMantissa(m) ==
    LET dot  == IndexOf(m, {"."})
        ip   == IF dot = 0 THEN m ELSE SubSeq(m, 1, dot - 1)
        fp   == IF dot = 0 THEN "" ELSE SubSeq(m, dot + 1, Len(m))
    IN  IF AllDigits(ip) /\ AllDigits(fp) /\ Len(ip) + Len(fp) > 0
        THEN [ok |-> TRUE, num |-> DecimalValue(ip \o fp), den |-> 10 ^ Len(fp)]
        ELSE [ok |-> FALSE]

\* an exponent's digits with an optional sign: [ok, neg, val]
ParseExponent(e) ==
    LET signed == Len(e) > 0 /\ CharAt(e, 1) \in {"+", "-"}
        ds     == IF signed THEN Tail(e) ELSE e
    IN  IF Len(ds) > 0 /\ AllDigits(ds)
        THEN [ok |-> TRUE, neg |-> signed /\ CharAt(e, 1) = "-", val |-> DecimalValue(ds)]
        ELSE [ok |-> FALSE]

ParseFloat(value) ==
    LET signed == Len(value) > 0 /\ CharAt(value, 1) \in {"+", "-"}
        neg    == signed /\ CharAt(value, 1) = "-"
        body   == IF signed THEN Tail(value) ELSE value
        ePos   == IndexOf(body, {"e", "E"})
        m      == ParseMantissa(IF ePos = 0 THEN body ELSE SubSeq(body, 1, ePos - 1))
        x      == IF ePos = 0 THEN [ok |-> TRUE, neg |-> FALSE, val |-> 0]
                  ELSE ParseExponent(SubSeq(body, ePos + 1, Len(body)))
    IN  IF body \in {"inf", "Inf", "INF", "infinity", "Infinity"}
        THEN [err |-> FALSE, kind |-> "inf", neg |-> neg]
        ELSE IF value \in {"nan", "NaN", "NAN"}
        THEN [err |-> FALSE, kind |-> "nan"]
        ELSE IF ~m.ok \/ ~x.ok THEN SyntaxError
        ELSE IF x.neg
        THEN Finite((IF neg THEN -1 ELSE 1) * m.num, m.den * (10 ^ x.val))
        ELSE Finite((IF neg THEN -1 ELSE 1) * m.num * (10 ^ x.val), m.den)

\* the outcomes of int64(f) when f is outside int64 (infinite, NaN or too
\* large): Go leaves the value to the implementation (amd64 gives MinInt64,
\* arm64 saturates and turns NaN into 0)
OutOfRangeInt64 == {MinInt64, MaxInt64, 0}

\* int64(numValue) that rounds down instead of toward zero
Int64OfFloatFloor(f) ==
    IF f.kind # "finite" THEN OutOfRangeInt64
    ELSE LET t == IF f.den > 0 THEN f.num \div f.den ELSE (-f.num) \div (-f.den)
         IN  IF t \in Int64 THEN {t} ELSE OutOfRangeInt64

\* line 114: the values int64(numValue) may take; truncation toward zero
Int64OfFloat(f) ==
    IF f.kind # "finite" THEN OutOfRangeInt64
    ELSE LET t == TruncDiv(f.num, f.den)
         IN  IF t \in Int64 THEN {t} ELSE OutOfRangeInt64

----------------------------------------------------------------------------
(* time.Parse(layout, value) and time.Since(t).                            *)
(* A time.Time is [day, sec]: the day counted from Epoch's day and the     *)
(* second of that day (UTC).  The layouts modelled are RFC3339, the date   *)
(* only and the empty layout; fractional seconds are not modelled.         *)

RFC3339 == "2006-01-02T15:04:05Z07:00"
DateOnly == "2006-01-02"

SecondsPerDay == 24 * 60 * 60

IsLeap(y) == (y % 4 = 0 /\ y % 100 # 0) \/ y % 400 = 0

DaysIn(m, y) ==
    IF m = 2 THEN (IF IsLeap(y) THEN 29 ELSE 28)
    ELSE IF m \in {4, 6, 9, 11} THEN 30 ELSE 31

\* the number of days from 1970-01-01 to the civil date y-m-d
DaysFromCivil(y, m, d) ==
    LET yy  == IF m <= 2 THEN y - 1 ELSE y
        era == yy \div 400
        yoe == yy - era * 400
        mp  == IF m > 2 THEN m - 3 ELSE m + 9
        doy == ((153 * mp + 2) \div 5) + d - 1
        doe == yoe * 365 + (yoe \div 4) - (yoe \div 100) + doy
    IN  era * 146097 + doe - 719468

\* the instant the clock counts from: 2025-12-04T00:00:00Z
EpochDay == DaysFromCivil(2025, 12, 4)

ParseError == [err |-> TRUE]

\* the zero time.Time: January 1, year 1, 00:00:00 UTC
ZeroTime == [err |-> FALSE, day |-> DaysFromCivil(1, 1, 1) - EpochDay, sec |-> 0]

\* "2006-01-02": four, two and two digits; month and day in range
ParseDate(v) ==
    IF Len(v) # 10 \/ CharAt(v, 5) # "-" \/ CharAt(v, 8) # "-"
       \/ ~AllDigits(SubSeq(v, 1, 4) \o SubSeq(v, 6, 7) \o SubSeq(v, 9, 10))
    THEN ParseError
    ELSE LET y == DecimalValue(SubSeq(v, 1, 4))
             m == DecimalValue(SubSeq(v, 6, 7))
             d == DecimalValue(SubSeq(v, 9, 10))
         IN  IF m < 1 \/ m > 12 \/ d < 1 \/ d > DaysIn(m, y) THEN ParseError
             ELSE [err |-> FALSE, day |-> DaysFromCivil(y, m, d) - EpochDay, sec |-> 0]

\* "15:04:05": [err, sec], the second of the day
ParseClock(v) ==
    IF Len(v) # 8 \/ CharAt(v, 3) # ":" \/ CharAt(v, 6) # ":"
       \/ ~AllDigits(SubSeq(v, 1, 2) \o SubSeq(v, 4, 5) \o SubSeq(v, 7, 8))
    THEN ParseError
    ELSE LET h  == DecimalValue(SubSeq(v, 1, 2))
             mi == DecimalValue(SubSeq(v, 4, 5))
             s  == DecimalValue(SubSeq(v, 7, 8))
         IN  IF h > 23 \/ mi > 59 \/ s > 59 THEN ParseError
             ELSE [err |-> FALSE, sec |-> h * 3600 + mi * 60 + s]

\* "Z07:00": "Z", or a sign, hours, ":" and minutes: [err, off] in seconds
ParseZone(v) ==
    IF v = "Z" THEN [err |-> FALSE, off |-> 0]
    ELSE IF Len(v) # 6 \/ CharAt(v, 1) \notin {"+", "-"} \/ CharAt(v, 4) # ":"
            \/ ~AllDigits(SubSeq(v, 2, 3) \o SubSeq(v, 5, 6))
    THEN ParseError
    ELSE LET h  == DecimalValue(SubSeq(v, 2, 3))
             mi == DecimalValue(SubSeq(v, 5, 6))
         IN  IF h > 23 \/ mi > 59 THEN ParseError
             ELSE [err |-> FALSE,
                   off |-> (IF CharAt(v, 1) = "-" THEN -1 ELSE 1) * (h * 3600 + mi * 60)]

\* "2006-01-02T15:04:05Z07:00"
ParseRFC3339(v) ==
    IF Len(v) < 20 \/ CharAt(v, 11) # "T" THEN ParseError
    ELSE LET d == ParseDate(SubSeq(v, 1, 10))
             c == ParseClock(SubSeq(v, 12, 19))
             z == ParseZone(SubSeq(v, 20, Len(v)))
         IN  IF d.err \/ c.err \/ z.err THEN ParseError
             ELSE LET utc == c.sec - z.off
                  IN  [err |-> FALSE,
                       day |-> d.day + (IF utc < 0 THEN -1
                                        ELSE IF utc >= SecondsPerDay THEN 1 ELSE 0),
                       sec |-> utc % SecondsPerDay]

\* line 127: time.Parse(nm.args.TimestampFormat, value).  The empty layout
\* matches the empty value only, which is the zero time.
ParseTime(layout, value) ==
    IF layout = "" THEN (IF value = "" THEN ZeroTime ELSE ParseError)
    ELSE IF layout = DateOnly THEN ParseDate(value)
    ELSE IF layout = RFC3339 THEN ParseRFC3339(value)
    ELSE ParseError

\* days beyond which t is further from every clock reading than a Duration holds
FarDays == (MaxInt64 \div (TicksPerSecond * SecondsPerDay)) + 2

\* line 133: time.Since(t) with the clock at `clock` ticks past Epoch: the
\* Duration clock - t, saturated at the largest and smallest Duration
Since(t, clock) ==
    IF t.day > FarDays THEN MinInt64
    ELSE IF t.day < -FarDays THEN MaxInt64
    ELSE LET d == clock - (t.day * SecondsPerDay + t.sec) * TicksPerSecond
         IN  IF d > MaxInt64 THEN MaxInt64 ELSE IF d < MinInt64 THEN MinInt64 ELSE d

\* lines 133, 139, 142: int64(d.Seconds()), the Duration in whole seconds,
\* truncated toward zero
WholeSeconds(d) == TruncDiv(d, TicksPerSecond)

----------------------------------------------------------------------------
(* The plugin's arguments and their validation *)

MetadataSourceLabel == "Label"
MetadataSourceAnnotation == "Annotation"
MetadataTypeNumber == "Number"
MetadataTypeTimestamp == "Timestamp"
ScoringStrategyHighest == "Highest"
ScoringStrategyLowest == "Lowest"
ScoringStrategyNewest == "Newest"
ScoringStrategyOldest == "Oldest"

\* ValidationErrors without the two checks of the strategy against the type
ValidationErrorsPerField(args) ==
    (IF args.MetadataKey = "" THEN {"metadataKey"} ELSE {})
    \cup (IF args.MetadataSource # MetadataSourceLabel
             /\ args.MetadataSource # MetadataSourceAnnotation
          THEN {"metadataSource"} ELSE {})
    \cup (IF args.MetadataType # MetadataTypeNumber
             /\ args.MetadataType # MetadataTypeTimestamp
          THEN {"metadataType"} ELSE {})
    \cup (IF args.ScoringStrategy \notin {ScoringStrategyHighest, ScoringStrategyLowest,
                                          ScoringStrategyNewest, ScoringStrategyOldest}
          THEN {"scoringStrategy"} ELSE {})

\* ValidateNodeMetadataArgs: the set of fields it reports invalid (allErrs);
\* it returns nil exactly when the set is empty
ValidationErrors(args) ==
    (IF args.MetadataKey = "" THEN {"metadataKey"} ELSE {})
    \cup (IF args.MetadataSource # MetadataSourceLabel
             /\ args.MetadataSource # MetadataSourceAnnotation
          THEN {"metadataSource"} ELSE {})
    \cup (IF args.MetadataType # MetadataTypeNumber
             /\ args.MetadataType # MetadataTypeTimestamp
          THEN {"metadataType"} ELSE {})
    \cup (IF args.ScoringStrategy \notin {ScoringStrategyHighest, ScoringStrategyLowest,
                                          ScoringStrategyNewest, ScoringStrategyOldest}
          THEN {"scoringStrategy"} ELSE {})
    \cup (IF args.MetadataType = MetadataTypeNumber
             /\ args.ScoringStrategy \in {ScoringStrategyNewest, ScoringStrategyOldest}
          THEN {"scoringStrategy for Timestamp only"} ELSE {})
    \cup (IF args.MetadataType = MetadataTypeTimestamp
             /\ args.ScoringStrategy \in {ScoringStrategyHighest, ScoringStrategyLowest}
          THEN {"scoringStrategy for Number only"} ELSE {})

\* whether ValidateNodeMetadataArgs returns an error
ValidateNodeMetadataArgs(args) == ValidationErrors(args) # {}

\* New without the call of ValidateNodeMetadataArgs
NewWithoutValidation(o) ==
    IF o.type # "NodeMetadataArgs" THEN [plugin |-> Nil, err |-> TRUE]
    ELSE [plugin |-> [args |-> o], err |-> FALSE]

\* New: [plugin, err].  o is [type |-> "NodeMetadataArgs", ...] or an
\* object of another type, on which the type assertion fails.
New(o) ==
    IF o.type # "NodeMetadataArgs" THEN [plugin |-> Nil, err |-> TRUE]
    ELSE IF ValidateNodeMetadataArgs(o) THEN [plugin |-> Nil, err |-> TRUE]
    ELSE [plugin |-> [args |-> o], err |-> FALSE]

----------------------------------------------------------------------------
(* Score *)

NoError == "nil"

\* lines 107-122.  The set of (score, error) pairs the call may return:
\* one, unless int64(numValue) is left to the implementation.
parseNumericValue(args, value) ==
    LET numValue == ParseFloat(value)
    IN  IF numValue.err THEN {[score |-> 0, err |-> "failed to parse numeric value"]}
        ELSE {[score |-> IF args.ScoringStrategy = ScoringStrategyLowest
                         THEN Neg64(score) ELSE score,
               err |-> NoError] : score \in Int64OfFloat(numValue)}

\* lines 125-146, the clock reading `clock` at the call
parseTimestampValue(args, value, clock) ==
    LET timestamp == ParseTime(args.TimestampFormat, value)
    IN  IF timestamp.err THEN {[score |-> 0, err |-> "failed to parse timestamp"]}
        ELSE LET age == WholeSeconds(Since(timestamp, clock))
             IN  {[score |-> IF args.ScoringStrategy = ScoringStrategyNewest
                             THEN Neg64(age) ELSE age,
                   err |-> NoError]}

\* MetadataMap that falls back to the other map when the configured one
\* lacks the key
MetadataMapEitherSource(args, node) ==
    IF args.MetadataSource = MetadataSourceLabel
    THEN (IF args.MetadataKey \in DOMAIN node.Labels THEN node.Labels
          ELSE node.Annotations)
    ELSE (IF args.MetadataKey \in DOMAIN node.Annotations THEN node.Annotations
          ELSE node.Labels)

\* lines 84-89: the map the key is looked up in
MetadataMap(args, node) ==
    IF args.MetadataSource = MetadataSourceLabel THEN node.Labels ELSE node.Annotations

\* calculateScore that scores by another key of the map when the
\* configured key is absent
calculateScoreAnyKey(args, node, clock) ==
    LET map == MetadataMap(args, node)
    IN  IF DOMAIN map = {}
        THEN {[score |-> 0, err |-> "metadata key not found"]}
        ELSE LET key == IF args.MetadataKey \in DOMAIN map THEN args.MetadataKey
                        ELSE CHOOSE k \in DOMAIN map : TRUE
             IN  IF args.MetadataType = MetadataTypeNumber
                 THEN parseNumericValue(args, map[key])
                 ELSE parseTimestampValue(args, map[key], clock)

\* calculateScore that keeps its result in a field the calls share: a call
\* returns the result another running call has left there
calculateScoreSharedResult(args, node, clock) ==
    LET others == {j \in DOMAIN call : call[j].pc = "calculated"}
        map == MetadataMap(args, node)
    IN  IF others # {}
        THEN {[score |-> call[j].score, err |-> call[j].err] : j \in others}
        ELSE IF args.MetadataKey \notin DOMAIN map
        THEN {[score |-> 0, err |-> "metadata key not found"]}
        ELSE parseNumericValue(args, map[args.MetadataKey])

\* lines 80-104
calculateScore(args, node, clock) ==
    LET map == MetadataMap(args, node)
    IN  IF args.MetadataKey \notin DOMAIN map
        THEN {[score |-> 0, err |-> "metadata key not found"]}
        ELSE IF args.MetadataType = MetadataTypeNumber
        THEN parseNumericValue(args, map[args.MetadataKey])
        ELSE IF args.MetadataType = MetadataTypeTimestamp
        THEN parseTimestampValue(args, map[args.MetadataKey], clock)
        ELSE {[score |-> 0, err |-> "unsupported metadata type"]}

\* Score that hands the error of calculateScore on as an Error status
ScoreReturningError(args, node, clock) ==
    IF node = Nil THEN {[score |-> 0, status |-> "Panic"]}
    ELSE {[score |-> IF r.err # NoError THEN 0 ELSE r.score,
           status |-> IF r.err # NoError THEN "Error" ELSE "Success"] :
            r \in calculateScore(args, node, clock)}

\* Score that scores the nodes for the first pod only
ScoreFirstCycleOnly(args, node, clock) ==
    IF node = Nil THEN {[score |-> 0, status |-> "Panic"]}
    ELSE IF cycle > 1 THEN {[score |-> 0, status |-> "Success"]}
    ELSE {[score |-> IF r.err # NoError THEN 0 ELSE r.score, status |-> "Success"] :
            r \in calculateScore(args, node, clock)}

\* lines 56-72.  The (score, status) pairs the call may return.  With a nil
\* node, line 60 reads nodeInfo.Node().Name through the nil pointer while it
\* builds the status: the call panics.
Score(args, node, clock) ==
    IF node = Nil THEN {[score |-> 0, status |-> "Panic"]}
    ELSE {[score |-> IF r.err # NoError THEN 0 ELSE r.score, status |-> "Success"] :
            r \in calculateScore(args, node, clock)}

\* Score that stores the default value under a key it did not find
NodeAfterScoreDefaulted(args, node) ==
    IF node = Nil \/ args.MetadataKey \in DOMAIN MetadataMap(args, node) THEN node
    ELSE IF args.MetadataSource = MetadataSourceLabel
    THEN [node EXCEPT !.Labels =
            [k \in DOMAIN node.Labels \cup {args.MetadataKey} |->
                IF k = args.MetadataKey THEN "0" ELSE node.Labels[k]]]
    ELSE [node EXCEPT !.Annotations =
            [k \in DOMAIN node.Annotations \cup {args.MetadataKey} |->
                IF k = args.MetadataKey THEN "0" ELSE node.Annotations[k]]]

\* lines 56-146: the node as a Score call leaves it.  The call reads
\* node.Name, node.Labels[key] and node.Annotations[key] and assigns
\* through none of them.
NodeAfterScore(args, node) == node

\* lines 56-146: nm.args as a Score call leaves it; the call only reads it
ArgsAfterScore(args, node) == args

\* lines 149-191: nm.args as NormalizeScore leaves it; the call does not
\* read it
ArgsAfterNormalizeScore(args, list) == args

----------------------------------------------------------------------------
(* The inputs the model draws from *)

Args(key, source, type, strategy, format) ==
    [type |-> "NodeMetadataArgs", MetadataKey |-> key, MetadataSource |-> source,
     MetadataType |-> type, ScoringStrategy |-> strategy, TimestampFormat |-> format]

\* a map from the keys ks, each to the value v
MapOf(ks, v) == [k \in ks |-> v]

Node(name, labels, annotations) ==
    [Name |-> name, Labels |-> labels, Annotations |-> annotations]

NodeName(i) == CharAt("abcdefgh", i)

\* values of a numeric label: integers, decimals, a negative one, and
\* strings that are no number
NumberValues == {"0", "0.9", "1.2", "1.8", "2.5", "10", "50", "100", "-5", "-0.5"}
BadNumberValues == {"", "not-a-number"}

\* values at the edge of int64: one whose distance from 0, times 100, no
\* longer fits, the least int64, one beyond int64, and infinity
LargeValue == ToString((MaxInt64 \div 100) + 6115)
LargeNumberValues == {"0", "100", LargeValue, ToString(MinInt64), "1e9", "Inf"}

\* timestamps around Epoch, far ones, and strings that are no timestamp
TimestampValues ==
    {"2025-12-03T23:59:58Z", "2025-12-03T23:59:59Z", "2025-12-04T00:00:00Z",
     "2025-12-04T00:00:02Z", "2025-12-04T01:00:01+01:00", "2025-12-01T10:00:00Z"}
BadTimestampValues == {"", "not-a-timestamp", "2025-13-01T00:00:00Z"}

\* the maps of a node: the key absent, or present with value v
Maps(values) == {MapOf({}, "")} \cup {MapOf({"priority"}, v) : v \in values}

\* raw scores handed to NormalizeScore on its own: small ones, the extremes
\* of int64, and spreads on both sides of the largest that times 100 fits
RawScores ==
    {MinInt64, -100, -1, 0, 1, 50, 100,
     MaxInt64 \div 100, (MaxInt64 \div 100) + 1, (MaxInt64 \div 50) + 7, MaxInt64}

ScoreList(f) == [i \in DOMAIN f |-> [Name |-> NodeName(i), Score |-> f[i]]]

\* the list the framework hands to the Score calls: one entry per node
EmptyScores(ns) == [i \in DOMAIN ns |-> [Name |-> NodeName(i), Score |-> 0]]

SomePlugin ==
    [args |-> Args("priority", MetadataSourceLabel, MetadataTypeNumber,
                   ScoringStrategyHighest, "")]

----------------------------------------------------------------------------
(* The state machine *)

\* a Score call that is not running
Idle == [pc |-> "idle", score |-> 0, err |-> NoError]

\* the pods of TestNodeMetadataPluginWithMultiplePods
Pods == {"test-pod-0", "test-pod-1"}

\* the state before New, for the arguments o and the nodes ns
Start(o, ns) ==
    /\ obj = o
    /\ plugin = Nil
    /\ newErr = FALSE
    /\ nodes = ns
    /\ pending = DOMAIN ns
    /\ scores = EmptyScores(ns)
    /\ scoreStatus = [i \in DOMAIN ns |-> "Pending"]
    /\ normStatus = "Pending"
    /\ raw = <<>>
    /\ readAt = [i \in DOMAIN ns |-> 0]
    /\ now = 0
    /\ pc = "new"
    /\ cycle = 1
    /\ pod = "test-pod-0"
    /\ results = <<>>
    /\ call = [i \in DOMAIN ns |-> Idle]

\* New(ctx, obj, h)
RunNew ==
    /\ pc = "new"
    /\ LET r == New(obj)
       IN  /\ plugin' = r.plugin
           /\ newErr' = r.err
           /\ pc' = IF r.err THEN "rejected" ELSE "score"
    /\ UNCHANGED <<obj, nodes, pending, scores, scoreStatus, normStatus, raw, readAt, now,
                   cycle, pod, results, call>>

\* the framework's call of Score for node i; the calls of a cycle run in
\* any order.  A panic ends the cycle, an error status aborts it.
RunScore(i) ==
    /\ pc = "score"
    /\ i \in pending
    /\ call[i].pc = "idle"
    /\ \E r \in Score(plugin.args, nodes[i], now) :
        /\ scores' = [scores EXCEPT ![i].Score = r.score]
        /\ scoreStatus' = [scoreStatus EXCEPT ![i] = r.status]
        /\ pc' = IF r.status = "Panic" THEN "panic"
                 ELSE IF r.status # "Success" THEN "aborted"
                 ELSE IF pending = {i} THEN "normalize" ELSE "score"
    /\ pending' = pending \ {i}
    /\ readAt' = [readAt EXCEPT ![i] = now]
    /\ nodes' = [nodes EXCEPT ![i] = NodeAfterScore(plugin.args, nodes[i])]
    /\ plugin' = [plugin EXCEPT !.args = ArgsAfterScore(plugin.args, nodes[i])]
    /\ UNCHANGED <<obj, newErr, normStatus, raw, now, cycle, pod, results, call>>

\* the wall clock advances between the Score calls of a cycle
Tick ==
    /\ pc = "score"
    /\ \E d \in {TicksPerSecond \div 2, TicksPerSecond + (TicksPerSecond \div 2)} :
        /\ now + d <= MaxClock
        /\ now' = now + d
    /\ UNCHANGED <<obj, plugin, newErr, nodes, pending, scores, scoreStatus, normStatus,
                   raw, readAt, pc, cycle, pod, results, call>>

\* the framework's call of NormalizeScore, once every Score call returned
RunNormalizeScore ==
    /\ pc = "normalize"
    /\ LET r == NormalizeScore(scores)
       IN  /\ scores' = r.scores
           /\ normStatus' = r.status
           /\ pc' = IF r.status = "Success" THEN "done" ELSE "panic"
           /\ results' = IF r.status = "Success"
                         THEN Append(results, [pod |-> pod, scores |-> r.scores])
                         ELSE results
    /\ raw' = scores
    /\ plugin' = [plugin EXCEPT !.args = ArgsAfterNormalizeScore(plugin.args, scores)]
    /\ UNCHANGED <<obj, newErr, nodes, pending, scoreStatus, readAt, now,
                   cycle, pod, call>>

\* lines 58-61 of the Score call of node i: the node is read and checked.
\* The calls of a cycle run concurrently; each is three steps.
ScoreEnter(i) ==
    /\ pc = "score"
    /\ i \in pending
    /\ call[i].pc = "idle"
    /\ IF nodes[i] = Nil
       THEN /\ pc' = "panic"
            /\ scoreStatus' = [scoreStatus EXCEPT ![i] = "Panic"]
            /\ call' = call
       ELSE /\ call' = [call EXCEPT ![i].pc = "entered"]
            /\ UNCHANGED <<pc, scoreStatus>>
    /\ UNCHANGED <<obj, plugin, newErr, nodes, pending, scores, normStatus, raw, readAt,
                   now, cycle, pod, results>>

\* line 63: score, err := nm.calculateScore(node), into the call's locals
ScoreCalculate(i) ==
    /\ pc = "score"
    /\ i \in DOMAIN nodes
    /\ call[i].pc = "entered"
    /\ \E r \in calculateScore(plugin.args, nodes[i], now) :
        call' = [call EXCEPT ![i] = [pc |-> "calculated", score |-> r.score, err |-> r.err]]
    /\ readAt' = [readAt EXCEPT ![i] = now]
    /\ nodes' = [nodes EXCEPT ![i] = NodeAfterScore(plugin.args, nodes[i])]
    /\ plugin' = [plugin EXCEPT !.args = ArgsAfterScore(plugin.args, nodes[i])]
    /\ UNCHANGED <<obj, newErr, pending, scores, scoreStatus, normStatus,
                   raw, now, pc, cycle, pod, results>>

\* lines 64-71: the call returns 0 on an error and the score otherwise
ScoreReturn(i) ==
    /\ pc = "score"
    /\ i \in DOMAIN nodes
    /\ call[i].pc = "calculated"
    /\ scores' = [scores EXCEPT ![i].Score =
                    IF call[i].err # NoError THEN 0 ELSE call[i].score]
    /\ scoreStatus' = [scoreStatus EXCEPT ![i] = "Success"]
    /\ pending' = pending \ {i}
    /\ call' = [call EXCEPT ![i] = Idle]
    /\ pc' = IF pending = {i} THEN "normalize" ELSE "score"
    /\ UNCHANGED <<obj, plugin, newErr, nodes, normStatus, raw, readAt, now,
                   cycle, pod, results>>

\* the framework starts the next scheduling cycle, for some pod, over the
\* same nodes; the clock may have advanced
NextCycle ==
    /\ pc = "done"
    /\ cycle < MaxCycles
    /\ cycle' = cycle + 1
    /\ \E p \in Pods : pod' = p
    /\ \E d \in {0, TicksPerSecond} : now + d <= MaxClock /\ now' = now + d
    /\ pending' = DOMAIN nodes
    /\ scores' = EmptyScores(nodes)
    /\ scoreStatus' = [i \in DOMAIN nodes |-> "Pending"]
    /\ normStatus' = "Pending"
    /\ raw' = <<>>
    /\ readAt' = [i \in DOMAIN nodes |-> 0]
    /\ pc' = "score"
    /\ UNCHANGED <<obj, plugin, newErr, nodes, results, call>>

----------------------------------------------------------------------------
(* NormalizeScore on its own, over lists of raw scores *)

InitNormalize ==
    \E n \in 0..MaxLen : \E f \in [1..n -> RawScores] :
        /\ obj = SomePlugin.args
        /\ plugin = SomePlugin
        /\ newErr = FALSE
        /\ nodes = <<>>
        /\ pending = {}
        /\ scores = ScoreList(f)
        /\ scoreStatus = [i \in 1..n |-> "Success"]
        /\ normStatus = "Pending"
        /\ raw = <<>>
        /\ readAt = [i \in 1..n |-> 0]
        /\ now = 0
        /\ pc = "normalize"
        /\ cycle = 1
        /\ pod = "test-pod-0"
        /\ results = <<>>
        /\ call = [i \in 1..n |-> Idle]

NextNormalize == RunNormalizeScore

SpecNormalize == InitNormalize /\ [][NextNormalize]_vars

----------------------------------------------------------------------------
(* A cycle of a plugin that scores by a number *)

NumberArgs ==
    {Args("priority", MetadataSourceLabel, MetadataTypeNumber, st, "") :
        st \in {ScoringStrategyHighest, ScoringStrategyLowest}}

NumberNodes ==
    {Node("n", l, MapOf({}, "")) : l \in Maps(NumberValues \cup BadNumberValues)}

InitNumber ==
    \E o \in NumberArgs : \E n \in 1..MaxNodes : \E ns \in [1..n -> NumberNodes] :
        Start(o, [i \in 1..n |-> [ns[i] EXCEPT !.Name = NodeName(i)]])

NextNumber == RunNew \/ (\E i \in 1..MaxNodes : RunScore(i)) \/ RunNormalizeScore

SpecNumber == InitNumber /\ [][NextNumber]_vars

\* the same cycle over values at the edge of int64
LargeNumberNodes == {Node("n", l, MapOf({}, "")) : l \in Maps(LargeNumberValues)}

InitLargeNumber ==
    \E o \in NumberArgs : \E n \in 1..MaxNodes : \E ns \in [1..n -> LargeNumberNodes] :
        Start(o, [i \in 1..n |-> [ns[i] EXCEPT !.Name = NodeName(i)]])

SpecLargeNumber == InitLargeNumber /\ [][NextNumber]_vars

----------------------------------------------------------------------------
(* Several scheduling cycles of one plugin over the same nodes *)

\* the labels of TestNodeMetadataPluginWithMultiplePods, and one that does
\* not parse
CycleValues == {"10", "50", "100", "not-a-number"}

CycleNodes == {Node("n", l, MapOf({}, "")) : l \in Maps(CycleValues)}

InitCycles ==
    \E o \in NumberArgs : \E n \in 1..MaxNodes : \E ns \in [1..n -> CycleNodes] :
        Start(o, [i \in 1..n |-> [ns[i] EXCEPT !.Name = NodeName(i)]])

NextCycles ==
    RunNew \/ (\E i \in 1..MaxNodes : RunScore(i)) \/ RunNormalizeScore \/ NextCycle

SpecCycles == InitCycles /\ [][NextCycles]_vars

----------------------------------------------------------------------------
(* A cycle whose Score calls run concurrently, step by step *)

NextConcurrent ==
    \/ RunNew
    \/ \E i \in 1..MaxNodes : ScoreEnter(i)
    \/ \E i \in 1..MaxNodes : ScoreCalculate(i)
    \/ \E i \in 1..MaxNodes : ScoreReturn(i)
    \/ RunNormalizeScore

SpecConcurrent == InitNumber /\ [][NextConcurrent]_vars

----------------------------------------------------------------------------
(* A cycle of a plugin that scores by a timestamp *)

TimestampArgs ==
    {Args("priority", MetadataSourceAnnotation, MetadataTypeTimestamp, st, RFC3339) :
        st \in {ScoringStrategyNewest, ScoringStrategyOldest}}

TimestampNodes ==
    {Node("n", MapOf({}, ""), a) : a \in Maps(TimestampValues \cup BadTimestampValues)}

InitTimestamp ==
    \E o \in TimestampArgs : \E n \in 1..MaxNodes : \E ns \in [1..n -> TimestampNodes] :
        Start(o, [i \in 1..n |-> [ns[i] EXCEPT !.Name = NodeName(i)]])

NextTimestamp ==
    RunNew \/ (\E i \in 1..MaxNodes : RunScore(i)) \/ Tick \/ RunNormalizeScore

SpecTimestamp == InitTimestamp /\ [][NextTimestamp]_vars

----------------------------------------------------------------------------
(* Any arguments, valid or not, and any nodes *)

AnyArgs ==
    {Args(key, src, ty, st, fmt) :
        key \in {"", "priority"},
        src \in {MetadataSourceLabel, MetadataSourceAnnotation, "Invalid"},
        ty \in {MetadataTypeNumber, MetadataTypeTimestamp, "Invalid"},
        st \in {ScoringStrategyHighest, ScoringStrategyLowest, ScoringStrategyNewest,
                ScoringStrategyOldest, "Invalid"},
        fmt \in {"", RFC3339}}
    \cup {[type |-> "Other"]}

AnyNodes ==
    {Node("n", MapOf({}, ""), MapOf({}, "")),
     Node("n", MapOf({"priority"}, "50"), MapOf({}, "")),
     Node("n", MapOf({"priority"}, "not-a-number"), MapOf({}, "")),
     Node("n", MapOf({}, ""), MapOf({"priority"}, "100")),
     Node("n", MapOf({}, ""), MapOf({"priority"}, "2025-12-03T23:59:59Z")),
     Node("n", MapOf({"priority"}, "50"), MapOf({"priority"}, "100")),
     Nil}

Init ==
    \E o \in AnyArgs : \E n \in 1..MaxNodes : \E ns \in [1..n -> AnyNodes] :
        Start(o, [i \in 1..n |-> IF ns[i] = Nil THEN Nil
                                 ELSE [ns[i] EXCEPT !.Name = NodeName(i)]])

Next == RunNew \/ (\E i \in 1..MaxNodes : RunScore(i)) \/ Tick \/ RunNormalizeScore

Spec == Init /\ [][Next]_vars

----------------------------------------------------------------------------
(* A cycle of a plugin built from any arguments New accepts, over nodes    *)
(* that carry the key in either map, with an empty value, and other keys   *)

AcceptedArgs == {a \in AnyArgs : ~New(a).err}

MetadataNodes ==
    {Node("n", MapOf({}, ""), MapOf({}, "")),
     Node("n", MapOf({"priority"}, ""), MapOf({}, "")),
     Node("n", MapOf({}, ""), MapOf({"priority"}, "")),
     Node("n", MapOf({"priority"}, "50"), MapOf({"priority"}, "2025-12-03T23:59:59Z")),
     Node("n", [priority |-> "50", zone |-> "100"], MapOf({"priority"}, "not-a-timestamp")),
     Node("n", MapOf({"zone"}, "50"), [priority |-> "50", zone |-> "2025-12-03T23:59:59Z"])}

InitAccepted ==
    \E o \in AcceptedArgs : \E n \in 1..MaxNodes : \E ns \in [1..n -> MetadataNodes] :
        Start(o, [i \in 1..n |-> [ns[i] EXCEPT !.Name = NodeName(i)]])

NextAccepted == RunNew \/ (\E i \in 1..MaxNodes : RunScore(i)) \/ RunNormalizeScore

SpecAccepted == InitAccepted /\ [][NextAccepted]_vars

----------------------------------------------------------------------------
(* Properties *)

\* NormalizeScore has returned
Normalized == pc = "done"

InRange(x) == MinNodeScore <= x /\ x <= MaxNodeScore

\* C1: after NormalizeScore on a non-empty list of int64 raw scores, every
\* entry's score lies in [MinNodeScore, MaxNodeScore].
C1_RangeContainment ==
    Normalized => \A i \in DOMAIN scores : InRange(scores[i].Score)

\* the configured key is in the configured map of node i (a non-nil node)
HasKey(i) ==
    plugin.args.MetadataKey \in DOMAIN MetadataMap(plugin.args, nodes[i])

\* the string under the configured key of node i
ValueOf(i) == MetadataMap(plugin.args, nodes[i])[plugin.args.MetadataKey]

\* node i carries a valid, finite numeric value
ValidNumber(i) ==
    /\ nodes[i] # Nil
    /\ HasKey(i)
    /\ ~ParseFloat(ValueOf(i)).err
    /\ ParseFloat(ValueOf(i)).kind = "finite"

\* the numeric value of node i is less than that of node j
NumberLess(i, j) ==
    LET f == ParseFloat(ValueOf(i))
        g == ParseFloat(ValueOf(j))
    IN  f.num * g.den < g.num * f.den

\* C2: with strategy Highest and valid numeric values v1 < ... < vn, n >= 2,
\* the normalized scores are non-decreasing in the order of the values, the
\* node of the largest value has MaxNodeScore and that of the smallest
\* MinNodeScore.
C2_OrderPreservationHighest ==
    ( /\ Normalized
      /\ plugin.args.MetadataType = MetadataTypeNumber
      /\ plugin.args.ScoringStrategy = ScoringStrategyHighest
      /\ Len(nodes) >= 2
      /\ \A i \in DOMAIN nodes : ValidNumber(i)
      /\ \A i, j \in DOMAIN nodes : i # j => NumberLess(i, j) \/ NumberLess(j, i) )
    => \A i \in DOMAIN nodes :
        /\ \A j \in DOMAIN nodes : NumberLess(i, j) => scores[i].Score <= scores[j].Score
        /\ (\A j \in DOMAIN nodes : ~NumberLess(i, j)) => scores[i].Score = MaxNodeScore
        /\ (\A j \in DOMAIN nodes : ~NumberLess(j, i)) => scores[i].Score = MinNodeScore

\* node i is a node without the configured key
Missing(i) == nodes[i] # Nil /\ ~HasKey(i)

\* node i carries a value that parses under the configured type and format
ValidValue(i) ==
    /\ nodes[i] # Nil
    /\ HasKey(i)
    /\ IF plugin.args.MetadataType = MetadataTypeNumber
       THEN ~ParseFloat(ValueOf(i)).err
       ELSE ~ParseTime(plugin.args.TimestampFormat, ValueOf(i)).err

\* C3: a node without the key gets score 0 from Score and ends lowest: after
\* NormalizeScore no node with valid metadata has a strictly lower score
\* than a node without the key, whatever the strategy and the value.
C3_MissingIsLowest ==
    Normalized =>
        \A i \in DOMAIN nodes : Missing(i) =>
            /\ raw[i].Score = 0
            /\ \A j \in DOMAIN nodes : ValidValue(j) => scores[j].Score >= scores[i].Score

\* the time.Time of node i's timestamp
TimeOf(i) == ParseTime(plugin.args.TimestampFormat, ValueOf(i))

\* node i's timestamp is no later than node j's
NotAfter(i, j) ==
    LET s == TimeOf(i)
        t == TimeOf(j)
    IN  s.day < t.day \/ (s.day = t.day /\ s.sec <= t.sec)

\* node i ends with the highest normalized score of the cycle
Highest(i) == \A j \in DOMAIN nodes : scores[j].Score <= scores[i].Score

\* C4: when every node carries a parseable timestamp and each Score call
\* reads the clock when it runs, under Newest the node of the most recent
\* timestamp ends with the highest normalized score, and under Oldest the
\* node of the least recent one.
C4_TimestampDirection ==
    ( /\ Normalized
      /\ plugin.args.MetadataType = MetadataTypeTimestamp
      /\ \A i \in DOMAIN nodes : ValidValue(i) )
    => \A i \in DOMAIN nodes :
        /\ ( /\ plugin.args.ScoringStrategy = ScoringStrategyNewest
             /\ \A j \in DOMAIN nodes : NotAfter(j, i) ) => Highest(i)
        /\ ( /\ plugin.args.ScoringStrategy = ScoringStrategyOldest
             /\ \A j \in DOMAIN nodes : NotAfter(i, j) ) => Highest(i)

\* New has returned for arguments of the plugin's type
Constructed == pc # "new" /\ obj.type = "NodeMetadataArgs"

\* C5: arguments with metadataType Timestamp and an empty timestampFormat
\* are rejected (New returns an error and no plugin); the format is required
\* exactly when the type is Timestamp.
C5_TimestampFormatRequired ==
    Constructed =>
        /\ (obj.MetadataType = MetadataTypeTimestamp /\ obj.TimestampFormat = "")
            => (newErr /\ plugin = Nil)
        /\ ( /\ obj.MetadataType = MetadataTypeNumber
             /\ obj.TimestampFormat = ""
             /\ obj.MetadataKey # ""
             /\ obj.MetadataSource \in {MetadataSourceLabel, MetadataSourceAnnotation}
             /\ obj.ScoringStrategy \in {ScoringStrategyHighest, ScoringStrategyLowest} )
            => ~newErr

\* the score the Score call of node i returned
RawScore(i) == IF raw # <<>> THEN raw[i].Score ELSE scores[i].Score

\* C6: for a non-nil node whose key is absent or whose value does not parse,
\* Score returns score 0 with a success status; no Score call on a non-nil
\* node returns an error status, and the cycle is never aborted.
C6_ScoreNeverFailsOnMetadata ==
    /\ pc # "aborted"
    /\ \A i \in DOMAIN nodes :
        (scoreStatus[i] # "Pending" /\ nodes[i] # Nil) =>
            /\ scoreStatus[i] = "Success"
            /\ ~ValidValue(i) => RawScore(i) = 0

\* a cycle whose Score calls met a node without the key and one with a
\* value that does not parse
C6_Witness ==
    /\ pc = "normalize"
    /\ \E i, j \in DOMAIN nodes :
        /\ nodes[i] # Nil /\ nodes[j] # Nil
        /\ Missing(i) /\ scoreStatus[i] = "Success"
        /\ HasKey(j) /\ ~ValidValue(j) /\ scoreStatus[j] = "Success"

RawSet == {raw[i].Score : i \in DOMAIN raw}
RawMin == CHOOSE m \in RawSet : \A x \in RawSet : m <= x
RawMax == CHOOSE m \in RawSet : \A x \in RawSet : x <= m

\* C7: when every entry of a non-empty list has the same raw score,
\* NormalizeScore sets every score to MinNodeScore.
C7_DegenerateCollapse ==
    ( /\ Normalized
      /\ Len(raw) > 0
      /\ \A i, j \in DOMAIN raw : raw[i].Score = raw[j].Score )
    => \A i \in DOMAIN scores : scores[i].Score = MinNodeScore

\* a collapsed list of several entries whose common raw score was not 0
C7_Witness ==
    /\ Normalized
    /\ Len(raw) >= 2
    /\ \A i, j \in DOMAIN raw : raw[i].Score = raw[j].Score
    /\ raw[1].Score # MinNodeScore
    /\ \A i \in DOMAIN scores : scores[i].Score = MinNodeScore

\* (maxRaw - minRaw) * 100 fits in an int64
SpreadFits == RawMax - RawMin <= MaxInt64 \div (MaxNodeScore - MinNodeScore)

\* C8: when minRaw < maxRaw and the spread times 100 fits in an int64, the
\* entries of raw score maxRaw get MaxNodeScore and those of minRaw
\* MinNodeScore.
C8_ExtremesMapExactly ==
    ( /\ Normalized
      /\ Len(raw) > 0
      /\ RawMin < RawMax
      /\ SpreadFits )
    => \A i \in DOMAIN scores :
        /\ raw[i].Score = RawMax => scores[i].Score = MaxNodeScore
        /\ raw[i].Score = RawMin => scores[i].Score = MinNodeScore

\* a rescaled list of three distinct raw scores, negative ones among them,
\* whose spread is not the new range
C8_Witness ==
    /\ Normalized
    /\ Len(raw) = 3
    /\ RawMin < 0
    /\ RawMin < RawMax
    /\ SpreadFits
    /\ RawMax - RawMin # MaxNodeScore - MinNodeScore
    /\ \E i \in DOMAIN raw : RawMin < raw[i].Score /\ raw[i].Score < RawMax
    /\ \E i, j \in DOMAIN raw :
        scores[i].Score = MaxNodeScore /\ scores[j].Score = MinNodeScore

\* C9: NormalizeScore keeps the order of int64 raw scores: raw_i <= raw_j
\* implies normalized_i <= normalized_j.
C9_OrderPreserved ==
    Normalized =>
        \A i, j \in DOMAIN raw :
            raw[i].Score <= raw[j].Score => scores[i].Score <= scores[j].Score

\* C10: with strategy Lowest and valid numeric values on every node, the
\* node of the smallest value ends with the highest normalized score.
C10_InversionLowest ==
    ( /\ Normalized
      /\ plugin.args.MetadataType = MetadataTypeNumber
      /\ plugin.args.ScoringStrategy = ScoringStrategyLowest
      /\ \A i \in DOMAIN nodes : ValidNumber(i) )
    => \A i \in DOMAIN nodes :
        (\A j \in DOMAIN nodes : ~NumberLess(j, i)) => Highest(i)

\* the arguments a satisfy the configuration invariant
ValidConfiguration(a) ==
    /\ a.MetadataKey # ""
    /\ a.MetadataSource \in {MetadataSourceLabel, MetadataSourceAnnotation}
    /\ \/ /\ a.MetadataType = MetadataTypeNumber
          /\ a.ScoringStrategy \in {ScoringStrategyHighest, ScoringStrategyLowest}
       \/ /\ a.MetadataType = MetadataTypeTimestamp
          /\ a.ScoringStrategy \in {ScoringStrategyNewest, ScoringStrategyOldest}

CalculateErrors(i) ==
    {r.err : r \in calculateScore(plugin.args, nodes[i], readAt[i])}

\* C12: New returns a plugin only when ValidateNodeMetadataArgs accepts the
\* arguments, and otherwise an error and no plugin; so in every Score call
\* on a constructed plugin the strategy matches the type and calculateScore
\* does not take its "unsupported metadata type" branch.
C12_RejectedAtConstruction ==
    pc # "new" =>
        /\ (plugin # Nil) <=> ~newErr
        /\ (plugin # Nil) <=>
              (obj.type = "NodeMetadataArgs" /\ ~ValidateNodeMetadataArgs(obj))
        /\ \A i \in DOMAIN nodes :
              (scoreStatus[i] # "Pending" /\ nodes[i] # Nil) =>
                  /\ plugin # Nil
                  /\ ValidConfiguration(plugin.args)
                  /\ "unsupported metadata type" \notin CalculateErrors(i)

\* New rejected arguments of an invalid type, and no Score call ran
C12_WitnessRejected ==
    /\ pc = "rejected"
    /\ obj.type = "NodeMetadataArgs"
    /\ obj.MetadataType \notin {MetadataTypeNumber, MetadataTypeTimestamp}
    /\ plugin = Nil
    /\ \A i \in DOMAIN nodes : scoreStatus[i] = "Pending"

\* every Score call of a cycle ran on a constructed plugin, one of them on
\* a node that carries the key
C12_Witness ==
    /\ pc = "normalize"
    /\ plugin # Nil
    /\ \A i \in DOMAIN nodes : nodes[i] # Nil /\ scoreStatus[i] = "Success"
    /\ \E i \in DOMAIN nodes : HasKey(i)

\* the value of node i truncated toward zero, as an integer of any size
Truncated(i) ==
    LET f == ParseFloat(ValueOf(i))
    IN  TruncDiv(f.num, f.den)

\* C13: for a value that parses as a number, the Score call returns the
\* value truncated toward zero under Highest, and its negation under
\* Lowest.
C13_RawNumericScore ==
    \A i \in DOMAIN nodes :
        ( /\ scoreStatus[i] = "Success"
          /\ plugin.args.MetadataType = MetadataTypeNumber
          /\ ValidNumber(i) )
        => RawScore(i) = IF plugin.args.ScoringStrategy = ScoringStrategyLowest
                         THEN -Truncated(i) ELSE Truncated(i)

\* the divisor of line 186, as NormalizeScore computes it from the list
OldRange == Sub64(RawMax, RawMin)

\* C14: NormalizeScore has no error path: it returns a success status for
\* every list of int64 scores, and whenever it reaches the division the
\* divisor maxRaw - minRaw, computed with wraparound, is not zero.
C14_NoDivisionByZero ==
    /\ normStatus \in {"Pending", "Success"}
    /\ (normStatus # "Pending" /\ Len(raw) > 0 /\ RawMin # RawMax) => OldRange # 0

\* NormalizeScore divided by a divisor that wrapped around
C14_Witness ==
    /\ Normalized
    /\ Len(raw) > 0
    /\ RawMax - RawMin > MaxInt64
    /\ OldRange < 0
    /\ normStatus = "Success"

\* C15: NormalizeScore changes only the Score fields: the list keeps its
\* length and every index keeps its node name, in the degenerate and in the
\* general branch.
C15_NamesAndLengthKept ==
    normStatus # "Pending" =>
        /\ Len(scores) = Len(raw)
        /\ \A i \in DOMAIN raw : scores[i].Name = raw[i].Name

\* a list of three entries went through the general branch, which changed
\* scores and no name
C15_Witness ==
    /\ Normalized
    /\ Len(raw) = 3
    /\ RawMin < RawMax
    /\ \E i \in DOMAIN raw : scores[i].Score # raw[i].Score
    /\ \A i, j \in DOMAIN raw : i # j => raw[i].Name # raw[j].Name
    /\ \A i \in DOMAIN raw : scores[i].Name = raw[i].Name

\* C18: under Lowest, in a cycle of one node with a valid positive value
\* (truncating to v >= 1) and one node without the key, the node without
\* the key ends with MaxNodeScore and the node with the value with
\* MinNodeScore.
C18_LowestRanksValidBelowMissing ==
    ( /\ Normalized
      /\ plugin.args.MetadataType = MetadataTypeNumber
      /\ plugin.args.ScoringStrategy = ScoringStrategyLowest
      /\ Len(nodes) = 2 )
    => \A i, j \in DOMAIN nodes :
        (ValidNumber(i) /\ Truncated(i) >= 1 /\ Missing(j)) =>
            /\ scores[j].Score = MaxNodeScore
            /\ scores[i].Score = MinNodeScore

\* entry i's raw score is strictly between the least and the greatest
StrictlyBetween(i) == RawMin < raw[i].Score /\ raw[i].Score < RawMax

\* C19 as stated: when minRaw < maxRaw and the spread times 100 fits in an
\* int64, every entry whose raw score is strictly between minRaw and maxRaw
\* gets a score strictly greater than MinNodeScore and strictly less than
\* MaxNodeScore.
C19_StrictlyBetween ==
    ( /\ Normalized
      /\ Len(raw) > 0
      /\ RawMin < RawMax
      /\ SpreadFits )
    => \A i \in DOMAIN raw :
        StrictlyBetween(i) =>
            MinNodeScore < scores[i].Score /\ scores[i].Score < MaxNodeScore

\* C19 amended: under the same conditions every such entry gets a score of
\* at least MinNodeScore and strictly less than MaxNodeScore; its score is
\* strictly greater than MinNodeScore exactly when its distance from minRaw
\* times 100 is at least the spread.
C19_BetweenUpToTruncation ==
    ( /\ Normalized
      /\ Len(raw) > 0
      /\ RawMin < RawMax
      /\ SpreadFits )
    => \A i \in DOMAIN raw :
        StrictlyBetween(i) =>
            /\ MinNodeScore <= scores[i].Score
            /\ scores[i].Score < MaxNodeScore
            /\ (MinNodeScore < scores[i].Score) <=>
                  ((raw[i].Score - RawMin) * (MaxNodeScore - MinNodeScore)
                      >= RawMax - RawMin)

\* an entry strictly between the extremes that truncation left at
\* MinNodeScore
C19_Witness ==
    /\ Normalized
    /\ Len(raw) = 3
    /\ RawMin < RawMax
    /\ SpreadFits
    /\ \E i \in DOMAIN raw : StrictlyBetween(i) /\ scores[i].Score = MinNodeScore

\* C20: NormalizeScore on an empty list returns a success status and leaves
\* the empty list as it is.
C20_EmptyListNoOp ==
    (normStatus # "Pending" /\ raw = <<>>) =>
        /\ normStatus = "Success"
        /\ pc = "done"
        /\ scores = <<>>

\* NormalizeScore returned for the empty list
C20_Witness ==
    /\ Normalized
    /\ normStatus = "Success"
    /\ raw = <<>>
    /\ scores = <<>>

\* C16: the plugin keeps no state across scheduling cycles: with a Number
\* configuration and the same nodes, every cycle ends with the same
\* normalized score for each node, however many cycles ran before and
\* whichever pods they scheduled.
C16_SameScoresEveryCycle ==
    \A c \in DOMAIN results :
        /\ Len(results[c].scores) = Len(nodes)
        /\ \A i \in DOMAIN nodes :
            results[c].scores[i].Score = results[1].scores[i].Score

\* two cycles for different pods, at different clock readings, that told
\* the nodes apart
C16_Witness ==
    /\ Len(results) >= 2
    /\ results[1].pod # results[2].pod
    /\ now > 0
    /\ \E i, j \in DOMAIN nodes :
        /\ results[2].scores[i].Score = MaxNodeScore
        /\ results[2].scores[j].Score = MinNodeScore

\* C17: with a Number configuration, when the Score calls of a cycle run
\* concurrently in any interleaving, each call computes and returns the one
\* value it returns when it runs alone.
C17_ConcurrentScoreAsAlone ==
    \A i \in DOMAIN nodes :
        /\ call[i].pc = "calculated" =>
            /\ Cardinality(calculateScore(plugin.args, nodes[i], readAt[i])) = 1
            /\ [score |-> call[i].score, err |-> call[i].err]
                  \in calculateScore(plugin.args, nodes[i], readAt[i])
        /\ scoreStatus[i] = "Success" =>
            /\ Cardinality(Score(plugin.args, nodes[i], readAt[i])) = 1
            /\ [score |-> RawScore(i), status |-> "Success"]
                  \in Score(plugin.args, nodes[i], readAt[i])

\* two Score calls in flight at once, each holding a different result
C17_Witness ==
    /\ pc = "score"
    /\ \E i, j \in DOMAIN nodes :
        /\ i # j
        /\ call[i].pc = "calculated" /\ call[j].pc = "calculated"
        /\ call[i].score # call[j].score

\* the Score call of node i, a non-nil node, has returned
Scored(i) == scoreStatus[i] # "Pending" /\ nodes[i] # Nil

\* C21: calculateScore fails in exactly two cases, and returns score 0 with
\* the error in both: the key is absent from the selected map, or its value
\* does not parse under the configured type and format, which an empty
\* value never does; for arguments New accepted it succeeds otherwise.
C21_CalculateScoreErrors ==
    \A i \in DOMAIN nodes :
        Scored(i) =>
            \A r \in calculateScore(plugin.args, nodes[i], readAt[i]) :
                /\ (r.err # NoError) <=> (Missing(i) \/ ~ValidValue(i))
                /\ Missing(i) => r.err = "metadata key not found"
                /\ r.err # NoError => r.score = 0
                /\ (HasKey(i) /\ ValueOf(i) = "") => r.err # NoError

\* node i with the map the configuration does not select emptied
SelectedMapOnly(i) ==
    IF plugin.args.MetadataSource = MetadataSourceLabel
    THEN [nodes[i] EXCEPT !.Annotations = <<>>]
    ELSE [nodes[i] EXCEPT !.Labels = <<>>]

\* the configured key is in the map the configuration does not select
InOtherMap(i) ==
    IF plugin.args.MetadataSource = MetadataSourceLabel
    THEN plugin.args.MetadataKey \in DOMAIN nodes[i].Annotations
    ELSE plugin.args.MetadataKey \in DOMAIN nodes[i].Labels

\* the configured key is in the map the configuration selects
InSelectedMap(i) ==
    IF plugin.args.MetadataSource = MetadataSourceLabel
    THEN plugin.args.MetadataKey \in DOMAIN nodes[i].Labels
    ELSE plugin.args.MetadataKey \in DOMAIN nodes[i].Annotations

\* C22: with source Label the score depends on the label map only, with
\* source Annotation on the annotation map only: the Score call returns
\* what it returns for the node without the other map, and a key that is
\* in the other map only is a missing key.
C22_SourceSelection ==
    \A i \in DOMAIN nodes :
        Scored(i) =>
            /\ Score(plugin.args, nodes[i], readAt[i])
                  = Score(plugin.args, SelectedMapOnly(i), readAt[i])
            /\ [score |-> RawScore(i), status |-> "Success"]
                  \in Score(plugin.args, SelectedMapOnly(i), readAt[i])
            /\ ~InSelectedMap(i) =>
                  /\ RawScore(i) = 0
                  /\ \A r \in calculateScore(plugin.args, nodes[i], readAt[i]) :
                        r.err = "metadata key not found"

\* a Label configuration scored a node whose key, with a valid number, is
\* among its annotations only
C22_Witness ==
    \E i \in DOMAIN nodes :
        /\ Scored(i)
        /\ plugin.args.MetadataSource = MetadataSourceLabel
        /\ plugin.args.MetadataType = MetadataTypeNumber
        /\ ~InSelectedMap(i)
        /\ InOtherMap(i)
        /\ ~ParseFloat(nodes[i].Annotations[plugin.args.MetadataKey]).err
        /\ RawScore(i) = 0

\* the instant of node i's timestamp, in ticks past Epoch
TicksOf(i) == (TimeOf(i).day * SecondsPerDay + TimeOf(i).sec) * TicksPerSecond

\* the time from node i's timestamp to its Score call, in whole seconds
\* truncated toward zero, as an integer of any size
AgeAtCall(i) == TruncDiv(readAt[i] - TicksOf(i), TicksPerSecond)

\* the arguments of the plugin with the other timestamp strategy
OtherStrategy ==
    [plugin.args EXCEPT !.ScoringStrategy =
        IF plugin.args.ScoringStrategy = ScoringStrategyNewest
        THEN ScoringStrategyOldest ELSE ScoringStrategyNewest]

\* C23: for a value that parses under the configured format, the raw score
\* is the age (time of the call minus the parsed time, in whole seconds)
\* under Oldest and its negation under Newest; a past timestamp gives a
\* negative raw score under Newest, a future one a negative raw score under
\* Oldest, and at one clock reading the two strategies give opposite raw
\* scores for a node.
C23_RawTimestampScore ==
    \A i \in DOMAIN nodes :
        ( /\ Scored(i)
          /\ plugin.args.MetadataType = MetadataTypeTimestamp
          /\ ValidValue(i) )
        => /\ RawScore(i) = IF plugin.args.ScoringStrategy = ScoringStrategyOldest
                            THEN AgeAtCall(i) ELSE -AgeAtCall(i)
           /\ ( /\ TicksOf(i) < readAt[i]
                /\ plugin.args.ScoringStrategy = ScoringStrategyNewest ) => RawScore(i) < 0
           /\ ( /\ TicksOf(i) > readAt[i]
                /\ plugin.args.ScoringStrategy = ScoringStrategyOldest ) => RawScore(i) < 0
           /\ \A r \in Score(OtherStrategy, nodes[i], readAt[i]) : r.score = -RawScore(i)

\* a step of Score or NormalizeScore leaves nodes and arguments alone
ReadOnlyStep ==
    (pc = "score" \/ pc = "normalize") =>
        (nodes' = nodes /\ plugin' = plugin /\ obj' = obj)

\* C24: scoring is read-only: a Score call, on its success and on its
\* error path, leaves the node's name, labels and annotations and the
\* plugin's arguments as they were, and NormalizeScore leaves the
\* arguments as they were.
C24_ScoringIsReadOnly ==
    [][ReadOnlyStep]_vars

\* a cycle ran to its end over a node without the key and a node with a
\* value that parses, and the plugin still holds the arguments New was given
C24_Witness ==
    /\ Normalized
    /\ plugin.args = obj
    /\ \E i, j \in DOMAIN nodes : Missing(i) /\ ValidValue(j)

\* C25: when the node handed to Score is nil, Score returns score 0 with
\* an Error status and does not crash while it builds the status.
C25_NilNodeReturnsError ==
    \A i \in DOMAIN nodes :
        (nodes[i] = Nil /\ scoreStatus[i] # "Pending") =>
            /\ scoreStatus[i] = "Error"
            /\ scores[i].Score = 0
            /\ pc # "panic"

\* C26: under a Timestamp configuration, nodes that carry the identical
\* timestamp string end a cycle with equal normalized scores, however their
\* Score calls interleave with advances of the clock.
C26_EqualTimestampsTie ==
    ( /\ Normalized
      /\ plugin.args.MetadataType = MetadataTypeTimestamp )
    => \A i, j \in DOMAIN nodes :
        (ValidValue(i) /\ ValidValue(j) /\ ValueOf(i) = ValueOf(j)) =>
            scores[i].Score = scores[j].Score

\* C27: under Lowest, for two values whose truncations v1 < v2 are int64,
\* the least int64 included, the raw score of v1 is strictly greater than
\* that of v2: the negation never overflows.
C27_LowestNegationDoesNotWrap ==
    \A i, j \in DOMAIN nodes :
        ( /\ Scored(i) /\ Scored(j)
          /\ plugin.args.MetadataType = MetadataTypeNumber
          /\ plugin.args.ScoringStrategy = ScoringStrategyLowest
          /\ ValidNumber(i) /\ ValidNumber(j)
          /\ Truncated(i) \in Int64 /\ Truncated(j) \in Int64
          /\ Truncated(i) < Truncated(j) )
        => RawScore(i) > RawScore(j)

\* C28: NormalizeScore is idempotent: for a list whose raw spread times
\* 100 fits in an int64, NormalizeScore applied to its own output returns
\* success and leaves every score as it is.
C28_Idempotent ==
    (Normalized /\ (Len(raw) = 0 \/ SpreadFits)) =>
        /\ NormalizeScore(scores).status = "Success"
        /\ NormalizeScore(scores).scores = scores

\* the output of a rescaled list of three distinct raw scores, one of them
\* mapped strictly between the bounds, is a fixed point
C28_Witness ==
    /\ Normalized
    /\ Len(raw) = 3
    /\ SpreadFits
    /\ scores # raw
    /\ \E i \in DOMAIN scores :
        MinNodeScore < scores[i].Score /\ scores[i].Score < MaxNodeScore
    /\ NormalizeScore(scores).scores = scores

\* the map of node i the configuration selects
SelectedMap(i) ==
    IF plugin.args.MetadataSource = MetadataSourceLabel
    THEN nodes[i].Labels ELSE nodes[i].Annotations

\* nodes i and j agree on the configured key in the configured map: both
\* lack it, or both carry it with the same value
AgreeOnKey(i, j) ==
    /\ InSelectedMap(i) <=> InSelectedMap(j)
    /\ InSelectedMap(i) =>
          SelectedMap(i)[plugin.args.MetadataKey] = SelectedMap(j)[plugin.args.MetadataKey]

\* C29: under a Number configuration two nodes that agree on the value, or
\* the absence, of the configured key in the configured map get the same
\* raw score, whatever their names and their other labels and annotations.
C29_DependsOnKeyOnly ==
    \A i, j \in DOMAIN nodes :
        ( /\ Scored(i) /\ Scored(j)
          /\ plugin.args.MetadataType = MetadataTypeNumber
          /\ AgreeOnKey(i, j) )
        => RawScore(i) = RawScore(j)

\* two nodes of different names, other labels and annotations, with the
\* same number under the configured key, got the same raw score, not 0
C29_Witness ==
    \E i, j \in DOMAIN nodes :
        /\ Scored(i) /\ Scored(j)
        /\ plugin.args.MetadataType = MetadataTypeNumber
        /\ InSelectedMap(i)
        /\ AgreeOnKey(i, j)
        /\ nodes[i].Name # nodes[j].Name
        /\ nodes[i].Labels # nodes[j].Labels
        /\ nodes[i].Annotations # nodes[j].Annotations
        /\ RawScore(i) = RawScore(j)
        /\ RawScore(i) # 0

\* C30: a node whose valid value truncates to 0 is indistinguishable from
\* a node without the key: under either numeric strategy both get raw
\* score 0 and, in any cycle, the same normalized score.
C30_TruncatedZeroAsMissing ==
    \A i, j \in DOMAIN nodes :
        ( /\ plugin # Nil
          /\ plugin.args.MetadataType = MetadataTypeNumber
          /\ Scored(i) /\ Scored(j)
          /\ ValidNumber(i) /\ Truncated(i) = 0
          /\ Missing(j) )
        => /\ RawScore(i) = 0
           /\ RawScore(j) = 0
           /\ Normalized => scores[i].Score = scores[j].Score

\* a cycle ended over a node without the key and a node whose value is a
\* negative fraction that truncates to 0
C30_Witness ==
    /\ Normalized
    /\ \E i, j \in DOMAIN nodes :
        /\ ValidNumber(i)
        /\ ParseFloat(ValueOf(i)).num < 0
        /\ Truncated(i) = 0
        /\ Missing(j)
        /\ raw[i].Score = 0
        /\ scores[i].Score = scores[j].Score

====
